---- MODULE Spec2Model ----
(***************************************************************************)
(* A model of the sophy numerical library: the Newton-Raphson root finder  *)
(* (methods/raphson.rs), the special functions gamma, zeta, eta, erf,      *)
(* sigma and is_perfect (specials/*.rs) and exp (functions/exp.rs).        *)
(*                                                                         *)
(* Every library function is a pure function of its arguments.  A call is  *)
(* modelled as a small step machine (one action per statement group of     *)
(* the function body) so that the order of the guard, the arithmetic and   *)
(* the returns inside a call can be stated.  In Spec one call runs at a    *)
(* time (variable cur); its arguments are drawn from small sets.  SeqSpec  *)
(* and ConcSpec run calls one after the other and side by side (calls).    *)
(*                                                                         *)
(* Reals.  An f64 is modelled as a fixed-point number: the integer v       *)
(* stands for v / Scale.  Three values outside -FMax..FMax stand for       *)
(* +infinity, -infinity and NaN, with the IEEE-754 rules for them.  The    *)
(* grid step 1/Scale plays the part of the f64 spacing; the thresholds the *)
(* code writes as 1e-15 are a few grid steps (Tol15), as 1e-15 is a few    *)
(* f64 steps at 1.0.  Results of gamma are exact rationals <<num, den>>.   *)
(***************************************************************************)
EXTENDS Integers, Sequences, FiniteSets, TLC

VARIABLES cur, raph, gam, zet, et, sig, er, ex, perf, calls

vars == <<cur, raph, gam, zet, et, sig, er, ex, perf, calls>>

(***************************************************************************)
(* Fixed-point f64                                                         *)
(***************************************************************************)
\* grid steps per unit: 1/Scale is the model's machine epsilon
Scale == 256

\* largest finite magnitude (f64::MAX); FMax * FMax stays below 2^31
FMax == 32767

PInf == FMax + 1
NInf == -(FMax + 1)
NaN == FMax + 2

AbsI(a) == IF a < 0 THEN -a ELSE a

SgnI(a) == IF a < 0 THEN -1 ELSE IF a > 0 THEN 1 ELSE 0

\* integer quotient rounded to the nearest integer, halves away from zero
RoundDiv[a, b \in Int] ==
    LET q == AbsI(a) \div AbsI(b)
        r == AbsI(a) % AbsI(b)
    IN SgnI(a) * SgnI(b) * (IF 2 * r >= AbsI(b) THEN q + 1 ELSE q)

\* the precision of the f64: below Exact every grid value is an f64; from
\* Exact on the f64s are Coarse apart, more than twice 1.0 (as the f64s are
\* above 2^54)
Exact == 112 * Scale

Coarse == 4 * Scale

\* the result of an operation rounded to an f64: to the nearest of the
\* coarse values from Exact on, and overflow of a finite result goes to the
\* infinity of its sign
Norm[v \in Int] ==
    LET w == IF AbsI(v) >= Exact THEN Coarse * RoundDiv[v, Coarse] ELSE v
    IN IF w > FMax THEN PInf ELSE IF w < -FMax THEN NInf ELSE w

IsInf(a) == a = PInf \/ a = NInf

FNeg[a \in Int] == IF a = NaN THEN NaN ELSE -a

FAbs[a \in Int] == IF a = NaN THEN NaN ELSE AbsI(a)

\* a < b on f64: false whenever an operand is NaN
FLt[a, b \in Int] == a # NaN /\ b # NaN /\ a < b

FLe[a, b \in Int] == a # NaN /\ b # NaN /\ a <= b

FGt[a, b \in Int] == FLt[b, a]

FGe[a, b \in Int] == FLe[b, a]

FAdd[a, b \in Int] ==
    IF a = NaN \/ b = NaN THEN NaN
    ELSE IF IsInf(a) /\ IsInf(b) THEN (IF a = b THEN a ELSE NaN)
    ELSE IF IsInf(a) THEN a
    ELSE IF IsInf(b) THEN b
    ELSE Norm[a + b]

FSub[a, b \in Int] == FAdd[a, FNeg[b]]

FMul[a, b \in Int] ==
    IF a = NaN \/ b = NaN THEN NaN
    ELSE IF IsInf(a) \/ IsInf(b)
         THEN (IF a = 0 \/ b = 0 THEN NaN
               ELSE IF SgnI(a) * SgnI(b) > 0 THEN PInf ELSE NInf)
    ELSE Norm[RoundDiv[a * b, Scale]]

FDiv[a, b \in Int] ==
    IF a = NaN \/ b = NaN THEN NaN
    ELSE IF IsInf(a) THEN (IF IsInf(b) THEN NaN
                           ELSE IF SgnI(a) * (IF b < 0 THEN -1 ELSE 1) > 0
                                THEN PInf ELSE NInf)
    ELSE IF IsInf(b) THEN 0
    ELSE IF b = 0 THEN (IF a = 0 THEN NaN ELSE IF a > 0 THEN PInf ELSE NInf)
    ELSE Norm[RoundDiv[a * Scale, b]]

\* the f64 of a small integer
Real(k) == k * Scale

(***************************************************************************)
(* sqrt and powf on the fixed-point f64                                    *)
(***************************************************************************)
\* the largest r in lo..hi-1 with r * r <= m, given lo * lo <= m < hi * hi
ISqrtBetween[m, lo, hi \in Int] ==
    IF hi - lo <= 1 THEN lo
    ELSE LET mid == (lo + hi) \div 2
         IN IF mid * mid <= m THEN ISqrtBetween[m, mid, hi]
                              ELSE ISqrtBetween[m, lo, mid]

\* floor of the square root of a natural number below 2^30
ISqrt[m \in Int] == ISqrtBetween[m, 0, 32768]

\* f64::sqrt
FSqrt[a \in Int] ==
    IF a = NaN \/ a < 0 THEN NaN
    ELSE IF a = PInf THEN PInf
    ELSE LET m == a * Scale
             r == ISqrt[m]
         IN IF m - r * r > r THEN r + 1 ELSE r

\* b^k for a natural number k, by repeated multiplication
FPowInt[b, k \in Int] == IF k = 0 THEN Real(1) ELSE FMul[b, FPowInt[b, k - 1]]

\* b^(f / Scale) for 0 <= f < 2w, where r = b^(w / Scale): one factor per
\* binary digit of the fraction
FPowFrac[r, f, w \in Int] ==
    IF w = 0 \/ f = 0 THEN Real(1)
    ELSE IF f >= w THEN FMul[r, FPowFrac[FSqrt[r], f - w, w \div 2]]
    ELSE FPowFrac[FSqrt[r], f, w \div 2]

\* f64::powf for a finite base b >= 1 and a finite exponent e
FPow[b, e \in Int] ==
    IF e < 0 THEN FDiv[Real(1), FMul[FPowInt[b, (-e) \div Scale],
                                     FPowFrac[FSqrt[b], (-e) % Scale, Scale \div 2]]]
    ELSE FMul[FPowInt[b, e \div Scale],
              FPowFrac[FSqrt[b], e % Scale, Scale \div 2]]

(***************************************************************************)
(* methods/raphson.rs                                                      *)
(***************************************************************************)
\* the closures the callers pass as f and df
Fns == {"sqrt2", "cube27", "linear", "square", "square_flat", "no_root"}

FEval(fn, x) ==
    CASE fn = "sqrt2"       -> FSub[FMul[x, x], Real(2)]
      [] fn = "cube27"      -> FSub[FMul[FMul[x, x], x], Real(27)]
      [] fn = "linear"      -> FSub[x, Real(1)]
      [] fn = "square"      -> FMul[x, x]
      [] fn = "square_flat" -> FMul[x, x]
      [] fn = "no_root"     -> FAdd[FMul[x, x], Real(1)]

DfEval(fn, x) ==
    CASE fn = "sqrt2"       -> FMul[Real(2), x]
      [] fn = "cube27"      -> FMul[Real(3), FMul[x, x]]
      [] fn = "linear"      -> Real(1)
      [] fn = "square"      -> FMul[Real(2), x]
      [] fn = "square_flat" -> 0
      [] fn = "no_root"     -> FMul[Real(2), x]

\* largest max_iter a caller passes
MaxIter == 3

RaphsonX0 == {0, Real(1), Real(3) + Scale \div 2, -Real(2)}

RaphsonTol == {-1, 0, 1, 8, Real(1)}

RaphsonIdle ==
    [pc |-> "idle", f |-> "linear", x0 |-> 0, x |-> 0, tol |-> 0, max_iter |-> 0,
     i |-> 0, y |-> 0, y_prime |-> 0, x_new |-> 0, result |-> 0,
     how |-> "none", nf |-> 0, ndf |-> 0, order |-> <<>>, steps |-> <<>>]

\* raphson(x, f, df, tol, max_iter) is called
RaphsonEnter(x0, fn, tol, max_iter) ==
    [RaphsonIdle EXCEPT !.pc = "loop", !.f = fn, !.x0 = x0, !.x = x0,
                        !.tol = tol, !.max_iter = max_iter]

RaphsonCall(x0, fn, tol, max_iter) ==
    /\ cur = "none"
    /\ cur' = "raphson"
    /\ raph' = RaphsonEnter(x0, fn, tol, max_iter)
    /\ UNCHANGED <<gam, zet, et, sig, er, ex, perf, calls>>

\* what the documentation's "Panics" section promises once the loop is used up
ExhaustedPanics(r) ==
    [r EXCEPT !.pc = "panicked", !.how = "Maximum iterations reached"]

\* the function's tail expression after the loop: x
Exhausted(r) ==
    [r EXCEPT !.pc = "returned", !.result = r.x, !.how = "exhausted"]

\* for _ in 0..max_iter { ... } x
RaphsonLoopStep(r) ==
    IF r.i < r.max_iter THEN [r EXCEPT !.pc = "eval_f"] ELSE Exhausted(r)

RaphsonLoop ==
    /\ raph.pc = "loop"
    /\ raph' = RaphsonLoopStep(raph)
    /\ UNCHANGED <<cur, gam, zet, et, sig, er, ex, perf, calls>>

\* let y = f(x);
RaphsonEvalFStep(r) ==
    [r EXCEPT !.pc = "eval_df", !.y = FEval(r.f, r.x), !.nf = @ + 1,
              !.order = Append(@, <<"f", r.x>>)]

RaphsonEvalF ==
    /\ raph.pc = "eval_f"
    /\ raph' = RaphsonEvalFStep(raph)
    /\ UNCHANGED <<cur, gam, zet, et, sig, er, ex, perf, calls>>

\* let y_prime = df(x);
\* a body that does not call df when f(x) is already zero
RaphsonEvalDfSkipsAtRoot(r) ==
    IF r.y = 0
    THEN [r EXCEPT !.pc = "guard"]
    ELSE [r EXCEPT !.pc = "guard", !.y_prime = DfEval(r.f, r.x), !.ndf = @ + 1,
                   !.order = Append(@, <<"df", r.x>>)]

RaphsonEvalDfStep(r) ==
    [r EXCEPT !.pc = "guard", !.y_prime = DfEval(r.f, r.x), !.ndf = @ + 1,
              !.order = Append(@, <<"df", r.x>>)]

RaphsonEvalDf ==
    /\ raph.pc = "eval_df"
    /\ raph' = RaphsonEvalDfStep(raph)
    /\ UNCHANGED <<cur, gam, zet, et, sig, er, ex, perf, calls>>

\* a guard that looks at the derivative in the first iteration only
DerivativeTooSmallFirstOnly(r) == r.i = 0 /\ FLt[FAbs[r.y_prime], r.tol]

\* y_prime.abs() < tol
DerivativeTooSmall(r) == FLt[FAbs[r.y_prime], r.tol]

\* if y_prime.abs() < tol { panic!("Derivative too small"); }
RaphsonGuardStep(r) ==
    IF DerivativeTooSmall(r)
    THEN [r EXCEPT !.pc = "panicked", !.how = "Derivative too small"]
    ELSE [r EXCEPT !.pc = "step"]

RaphsonGuard ==
    /\ raph.pc = "guard"
    /\ raph' = RaphsonGuardStep(raph)
    /\ UNCHANGED <<cur, gam, zet, et, sig, er, ex, perf, calls>>

\* let x_new = x - y / y_prime;
RaphsonNewtonStep(r) ==
    LET xn == FSub[r.x, FDiv[r.y, r.y_prime]]
    IN [r EXCEPT !.pc = "conv", !.x_new = xn,
                 !.steps = Append(@, [x |-> r.x, y |-> r.y,
                                      y_prime |-> r.y_prime, x_new |-> xn])]

RaphsonStep ==
    /\ raph.pc = "step"
    /\ raph' = RaphsonNewtonStep(raph)
    /\ UNCHANGED <<cur, gam, zet, et, sig, er, ex, perf, calls>>

\* a convergence test that accepts a step of exactly tol
ConvergedOrEqual(r) == FLe[FAbs[FSub[r.x_new, r.x]], r.tol]

\* (x_new - x).abs() < tol
Converged(r) == FLt[FAbs[FSub[r.x_new, r.x]], r.tol]

\* returning the iterate the step started from
ConvergedValueOld(r) == r.x

\* the value the convergence branch returns
ConvergedValue(r) == r.x_new

\* if (x_new - x).abs() < tol { return x_new; }  x = x_new;
RaphsonConvStep(r) ==
    IF Converged(r)
    THEN [r EXCEPT !.pc = "returned", !.result = ConvergedValue(r),
                   !.how = "converged"]
    ELSE [r EXCEPT !.pc = "loop", !.x = r.x_new, !.i = @ + 1]

RaphsonConv ==
    /\ raph.pc = "conv"
    /\ raph' = RaphsonConvStep(raph)
    /\ UNCHANGED <<cur, gam, zet, et, sig, er, ex, perf, calls>>


(***************************************************************************)
(* Exact rationals <<num, den>>, den > 0, in lowest terms                  *)
(***************************************************************************)
RECURSIVE Gcd(_, _)
Gcd(a, b) == IF b = 0 THEN a ELSE Gcd(b, a % b)

Rat(n, d) ==
    LET g == Gcd(AbsI(n), AbsI(d))
        sd == IF d < 0 THEN -1 ELSE 1
    IN <<(sd * n) \div g, (sd * d) \div g>>

RatMul(p, q) == Rat(p[1] * q[1], p[2] * q[2])

RatDiv(p, q) == Rat(p[1] * q[2], p[2] * q[1])

\* the exact value of a fixed-point number
RatOf(v) == Rat(v, Scale)

(***************************************************************************)
(* specials/gamma.rs                                                       *)
(*                                                                         *)
(* The argument is a fixed-point f64.  The value is kept exact: it is the  *)
(* Lanczos expression at one argument `at` of [1, 2), left uninterpreted,  *)
(* times the rational `k` the recurrences have multiplied onto it.         *)
(***************************************************************************)
\* largest argument a caller passes
GammaMaxX == 6

\* an argument in the range where the f64s are more than 2.0 apart
GammaHuge == Exact + Coarse

\* the invocations the thread's stack has room for
StackMax == 8

\* quarters from -1 to GammaMaxX, and a huge argument
GammaArgs == {k * (Scale \div 4) : k \in (-4)..(4 * GammaMaxX)} \cup {GammaHuge}

GammaIdle ==
    [pc |-> "idle", x0 |-> 0, x |-> 0, stack |-> <<>>, calls |-> 0,
     recursions |-> 0, lanczos |-> <<>>, val |-> [at |-> 0, k |-> <<0, 1>>],
     how |-> "none"]

\* gamma(x) is called
GammaEnter(x) == [GammaIdle EXCEPT !.pc = "entry", !.x0 = x, !.x = x]

\* a body that applies the recurrences before it looks at the domain
GammaBranchLateCheck(x) ==
    IF FLt[x, Real(1)] /\ FGt[x, -Real(1)] THEN "up"
    ELSE IF FLe[x, 0] THEN "panic"
    ELSE IF FGe[x, Real(2)] THEN "down"
    ELSE "lanczos"

\* a recurrence for x >= 2 that multiplies by x instead of x - 1
GammaDownFactorOffByOne(x) == x

\* a body that hands x = 2.0 itself to the Lanczos sum
GammaBranchDownAboveTwo(x) ==
    IF FLe[x, 0] THEN "panic"
    ELSE IF FLt[x, Real(1)] THEN "up"
    ELSE IF FGt[x, Real(2)] THEN "down"
    ELSE "lanczos"

\* the order of the tests in the body: x <= 0.0, x < 1.0, x >= 2.0
GammaBranch(x) ==
    IF FLe[x, 0] THEN "panic"
    ELSE IF FLt[x, Real(1)] THEN "up"
    ELSE IF FGe[x, Real(2)] THEN "down"
    ELSE "lanczos"

\* (x - 1.0) * gamma(x - 1.0): the factor
GammaDownFactor(x) == FSub[x, Real(1)]

\* the Lanczos approximation for x in [1, 2), as a fixed function of x
Lanczos(x) == [at |-> x, k |-> <<1, 1>>]

\* one invocation of gamma: the domain test, a recurrence or the Lanczos sum
GammaEntryStep(g) ==
    LET b == GammaBranch(g.x)
        c == [g EXCEPT !.calls = @ + 1]
    IN CASE b \in {"up", "down"} /\ Len(g.stack) >= StackMax ->
              [c EXCEPT !.pc = "overflow", !.how = "stack overflow"]
         [] b = "panic" ->
              [c EXCEPT !.pc = "panicked",
                        !.how = "Gamma function undefined for non-positive values"]
         [] b = "up" /\ Len(g.stack) < StackMax ->
              [c EXCEPT !.stack = Append(@, [op |-> "div", by |-> g.x]),
                        !.x = FAdd[g.x, Real(1)], !.recursions = @ + 1]
         [] b = "down" /\ Len(g.stack) < StackMax ->
              [c EXCEPT !.stack = Append(@, [op |-> "mul", by |-> GammaDownFactor(g.x)]),
                        !.x = FSub[g.x, Real(1)], !.recursions = @ + 1]
         [] b = "lanczos" ->
              [c EXCEPT !.pc = "unwind", !.val = Lanczos(g.x),
                        !.lanczos = Append(@, g.x)]

\* a pending invocation gets its callee's value: gamma(x + 1.0) / x or
\* (x - 1.0) * gamma(x - 1.0); the outermost one returns
GammaUnwindStep(g) ==
    IF g.stack = <<>>
    THEN [g EXCEPT !.pc = "returned", !.how = "value"]
    ELSE LET fr == g.stack[Len(g.stack)]
             rest == SubSeq(g.stack, 1, Len(g.stack) - 1)
         IN [g EXCEPT !.stack = rest,
                      !.val.k = IF fr.op = "div" THEN RatDiv(@, RatOf(fr.by))
                                ELSE RatMul(RatOf(fr.by), @)]

GammaStep(g) ==
    IF g.pc = "entry" THEN GammaEntryStep(g) ELSE GammaUnwindStep(g)

RECURSIVE GammaRun(_)
GammaRun(g) ==
    IF g.pc \in {"returned", "panicked", "overflow"} THEN g
    ELSE GammaRun(GammaStep(g))

\* the outcome of gamma(x)
GammaOf(x) == GammaRun(GammaEnter(x))

GammaCall(x) ==
    /\ cur = "none"
    /\ cur' = "gamma"
    /\ gam' = GammaEnter(x)
    /\ UNCHANGED <<raph, zet, et, sig, er, ex, perf, calls>>

GammaEntry ==
    /\ gam.pc = "entry"
    /\ gam' = GammaEntryStep(gam)
    /\ UNCHANGED <<cur, raph, zet, et, sig, er, ex, perf, calls>>

GammaUnwind ==
    /\ gam.pc = "unwind"
    /\ gam' = GammaUnwindStep(gam)
    /\ UNCHANGED <<cur, raph, zet, et, sig, er, ex, perf, calls>>


(***************************************************************************)
(* specials/zeta.rs                                                        *)
(***************************************************************************)
\* base::numbers::PI on the grid
PI == 804

\* the threshold the code writes as 1e-15, in grid steps
Tol15 == 4

\* the cap on the number of series terms (1,000,000 in the code), on the
\* scale of the grid
TermCap == 6

\* the arguments a caller passes to zeta or eta: around the domain limits 0
\* and 1, around the closed-form points 1, 2 and 4, and values between
SArgs ==
    {-Real(1), 0, 1, Scale \div 4, Scale \div 2} \cup
    {Real(1) + d : d \in {-Tol15, 1 - Tol15, 0, Tol15 - 1, Tol15}} \cup
    {Real(1) + Scale \div 2} \cup
    {Real(2) + d : d \in {-Tol15, 1 - Tol15, 0, Tol15 - 1, Tol15}} \cup
    {Real(3)} \cup
    {Real(4) + d : d \in {-Tol15, 1 - Tol15, 0, Tol15 - 1, Tol15}} \cup
    {Real(5), Real(6), Real(7), Real(8), Real(9)}

ZetaIdle ==
    [pc |-> "idle", s |-> 0, sum |-> 0, n |-> 0, term |-> 0, terms |-> <<>>,
     result |-> 0, how |-> "none"]

\* zeta(s) is called
ZetaEnter(s) == [ZetaIdle EXCEPT !.pc = "entry", !.s = s]

\* a domain test that lets s = 1 through
ZetaOutOfDomainStrict(s) == FLt[s, Real(1)]

\* s <= 1.0
ZetaOutOfDomain(s) == FLe[s, Real(1)]

\* the domain test, the two closed forms, and the loop's initial values
ZetaEntryStep(z) ==
    IF ZetaOutOfDomain(z.s)
    THEN [z EXCEPT !.pc = "panicked",
                   !.how = "Zeta function implementation requires s > 1"]
    ELSE IF FLt[FAbs[FSub[z.s, Real(2)]], Tol15]
    THEN [z EXCEPT !.pc = "returned", !.how = "closed_form_2",
                   !.result = FDiv[FMul[PI, PI], Real(6)]]
    ELSE IF FLt[FAbs[FSub[z.s, Real(4)]], Tol15]
    THEN [z EXCEPT !.pc = "returned", !.how = "closed_form_4",
                   !.result = FDiv[FPowInt[PI, 4], Real(90)]]
    ELSE [z EXCEPT !.pc = "loop", !.sum = 0, !.n = 1]

\* a cap test that lets one term too many through
ZetaCapReachedLate(n) == n > TermCap + 1

\* if n > 1_000_000.0 { break; }
ZetaCapReached(n) == n > TermCap

\* one pass of the loop body, and the return of sum on either break
ZetaTermStep(z) ==
    LET term == FDiv[Real(1), FPow[Real(z.n), z.s]]
    IN IF FLt[term, Tol15]
       THEN [z EXCEPT !.pc = "returned", !.how = "tolerance", !.term = term,
                      !.result = z.sum]
       ELSE LET sum == FAdd[z.sum, term]
                c == [z EXCEPT !.term = term, !.sum = sum, !.n = @ + 1,
                               !.terms = Append(@, term)]
            IN IF ZetaCapReached(z.n + 1)
               THEN [c EXCEPT !.pc = "returned", !.how = "cap", !.result = sum]
               ELSE c

ZetaStep(z) == IF z.pc = "entry" THEN ZetaEntryStep(z) ELSE ZetaTermStep(z)

RECURSIVE ZetaRun(_)
ZetaRun(z) ==
    IF z.pc \in {"returned", "panicked"} THEN z ELSE ZetaRun(ZetaStep(z))

\* the outcome of zeta(s)
ZetaOf(s) == ZetaRun(ZetaEnter(s))

ZetaCall(s) ==
    /\ cur = "none"
    /\ cur' = "zeta"
    /\ zet' = ZetaEnter(s)
    /\ UNCHANGED <<raph, gam, et, sig, er, ex, perf, calls>>

ZetaEntry ==
    /\ zet.pc = "entry"
    /\ zet' = ZetaEntryStep(zet)
    /\ UNCHANGED <<cur, raph, gam, et, sig, er, ex, perf, calls>>

ZetaTerm ==
    /\ zet.pc = "loop"
    /\ zet' = ZetaTermStep(zet)
    /\ UNCHANGED <<cur, raph, gam, et, sig, er, ex, perf, calls>>

(***************************************************************************)
(* specials/eta.rs                                                         *)
(***************************************************************************)
\* 2.0_f64.ln() on the grid
LN2 == 177

EtaIdle ==
    [pc |-> "idle", s |-> 0, sum |-> 0, sign |-> 0, n |-> 0, term |-> 0,
     terms |-> <<>>, factor |-> 0, result |-> 0, how |-> "none"]

\* eta(s) is called
EtaEnter(s) == [EtaIdle EXCEPT !.pc = "entry", !.s = s]

\* a body that hands every s > 0 other than 1 to zeta
EtaBranchAlwaysZeta(s) ==
    IF FLe[s, 0] THEN "panic"
    ELSE IF FLt[FAbs[FSub[s, Real(1)]], Tol15] THEN "ln2"
    ELSE "zeta"

\* a body without the special case for s = 1
EtaBranchNoSpecialCase(s) ==
    IF FLe[s, 0] THEN "panic"
    ELSE IF FGt[s, Real(1)] THEN "zeta"
    ELSE "series"

\* the order of the tests in the body: s <= 0.0, |s - 1.0| < 1e-15, s > 1.0
EtaBranch(s) ==
    IF FLe[s, 0] THEN "panic"
    ELSE IF FLt[FAbs[FSub[s, Real(1)]], Tol15] THEN "ln2"
    ELSE IF FGt[s, Real(1)] THEN "zeta"
    ELSE "series"

\* the domain test, the value at 1, the factor for zeta, or the loop's
\* initial values
EtaEntryStep(e) ==
    LET b == EtaBranch(e.s)
    IN CASE b = "panic" ->
              [e EXCEPT !.pc = "panicked",
                        !.how = "Eta function implementation requires s > 0"]
         [] b = "ln2" ->
              [e EXCEPT !.pc = "returned", !.how = "ln2", !.result = LN2]
         [] b = "zeta" ->
              [e EXCEPT !.pc = "in_zeta",
                        !.factor = FSub[Real(1), FPow[Real(2), FSub[Real(1), e.s]]]]
         [] b = "series" ->
              [e EXCEPT !.pc = "loop", !.sum = 0, !.sign = Real(1), !.n = 1]

\* the for loop's range is used up
EtaRangeDone(n) == n > TermCap

\* breaking out of the loop after the small term has been added
EtaAddsBeforeBreak(e, term) ==
    [e EXCEPT !.pc = "returned", !.how = "tolerance", !.term = term,
              !.terms = Append(@, term), !.sum = FAdd[e.sum, term],
              !.result = FAdd[e.sum, term]]

\* if term.abs() < tolerance { break; } ... sum
EtaBreak(e, term) ==
    [e EXCEPT !.pc = "returned", !.how = "tolerance", !.term = term,
              !.result = e.sum]

\* for n in 1..=1000000 { ... } sum: one pass, or the end of the range
EtaTermStep(e) ==
    IF EtaRangeDone(e.n)
    THEN [e EXCEPT !.pc = "returned", !.how = "cap", !.result = e.sum]
    ELSE LET term == FDiv[e.sign, FPow[Real(e.n), e.s]]
         IN IF FLt[FAbs[term], Tol15]
            THEN EtaBreak(e, term)
            ELSE [e EXCEPT !.term = term, !.sum = FAdd[e.sum, term],
                           !.sign = FMul[e.sign, -Real(1)], !.n = @ + 1,
                           !.terms = Append(@, term)]

\* factor * zeta(s): the value zeta returned, or zeta's panic passing through
EtaResumeStep(e, z) ==
    IF z.pc = "panicked"
    THEN [e EXCEPT !.pc = "panicked", !.how = z.how]
    ELSE [e EXCEPT !.pc = "returned", !.how = "zeta",
                   !.result = FMul[e.factor, z.result]]

EtaCall(s) ==
    /\ cur = "none"
    /\ cur' = "eta"
    /\ et' = EtaEnter(s)
    /\ UNCHANGED <<raph, gam, zet, sig, er, ex, perf, calls>>

EtaEntry ==
    /\ et.pc = "entry"
    /\ et' = EtaEntryStep(et)
    /\ zet' = IF et'.pc = "in_zeta" THEN ZetaEnter(et.s) ELSE zet
    /\ UNCHANGED <<cur, raph, gam, sig, er, ex, perf, calls>>

EtaTerm ==
    /\ et.pc = "loop"
    /\ et' = EtaTermStep(et)
    /\ UNCHANGED <<cur, raph, gam, zet, sig, er, ex, perf, calls>>

EtaResume ==
    /\ et.pc = "in_zeta"
    /\ zet.pc \in {"returned", "panicked"}
    /\ et' = EtaResumeStep(et, zet)
    /\ UNCHANGED <<cur, raph, gam, zet, sig, er, ex, perf, calls>>

(***************************************************************************)
(* specials/sigma.rs                                                       *)
(***************************************************************************)
\* the width of the unsigned integer type (u64 in the code)
WordBits == 6

\* u64::MAX
UMax == 2 ^ WordBits - 1

\* largest n a caller passes: the whole type
SigmaMaxN == UMax

\* the build profiles: overflow checks on (debug) or off (release)
Builds == {"debug", "release"}

\* the value an unsigned operation leaves when its true result is v: a
\* panic with overflow checks on, the wrapped value with them off
Unsigned(v, build) ==
    IF v <= UMax THEN [ok |-> TRUE, val |-> v]
    ELSE IF build = "debug" THEN [ok |-> FALSE, val |-> 0]
    ELSE [ok |-> TRUE, val |-> v % (UMax + 1)]

SigmaIdle ==
    [pc |-> "idle", n |-> 0, build |-> "debug", sum |-> 0, sqrt_n |-> 0,
     i |-> 0, scanned |-> 0, result |-> 0, how |-> "none"]

\* sigma(n) is called
SigmaEnter(n, build) ==
    [SigmaIdle EXCEPT !.pc = "entry", !.n = n, !.build = build]

\* a body that starts the scan before it looks at n
SigmaEntryStepNoCheck(g) ==
    [g EXCEPT !.pc = "scan", !.sum = 0, !.sqrt_n = ISqrt[g.n], !.i = 1]

\* the test for n == 0, the value for n == 1, and the scan's initial values
SigmaEntryStep(g) ==
    IF g.n = 0
    THEN [g EXCEPT !.pc = "panicked",
                   !.how = "Sum of divisors undefined for n = 0"]
    ELSE IF g.n = 1
    THEN [g EXCEPT !.pc = "returned", !.how = "one", !.result = 1]
    ELSE [g EXCEPT !.pc = "scan", !.sum = 0, !.sqrt_n = ISqrt[g.n], !.i = 1]

\* if i != n / i { sum += n / i; }: what the paired divisor adds
PairedDivisor(n, i) == IF i # n \div i THEN n \div i ELSE 0

\* for i in 1..=sqrt_n { ... } sum: one pass, or the end of the range
SigmaScanStep(g) ==
    IF g.i > g.sqrt_n
    THEN [g EXCEPT !.pc = "returned", !.how = "scan", !.result = g.sum]
    ELSE IF g.n % g.i # 0
    THEN [g EXCEPT !.i = @ + 1, !.scanned = @ + 1]
    ELSE LET s1 == Unsigned(g.sum + g.i, g.build)
             s2 == Unsigned(s1.val + PairedDivisor(g.n, g.i), g.build)
         IN IF s1.ok /\ s2.ok
            THEN [g EXCEPT !.sum = s2.val, !.i = @ + 1, !.scanned = @ + 1]
            ELSE [g EXCEPT !.pc = "panicked",
                           !.how = "attempt to add with overflow"]

SigmaStep(g) == IF g.pc = "entry" THEN SigmaEntryStep(g) ELSE SigmaScanStep(g)

SigmaCall(n, build) ==
    /\ cur = "none"
    /\ cur' = "sigma"
    /\ sig' = SigmaEnter(n, build)
    /\ UNCHANGED <<raph, gam, zet, et, er, ex, perf, calls>>

SigmaEntry ==
    /\ sig.pc = "entry"
    /\ sig' = SigmaEntryStep(sig)
    /\ UNCHANGED <<cur, raph, gam, zet, et, er, ex, perf, calls>>

SigmaScan ==
    /\ sig.pc = "scan"
    /\ sig' = SigmaScanStep(sig)
    /\ UNCHANGED <<cur, raph, gam, zet, et, er, ex, perf, calls>>

(***************************************************************************)
(* specials/sigma.rs: is_perfect                                           *)
(***************************************************************************)
PerfectIdle ==
    [pc |-> "idle", n |-> 0, build |-> "debug", sigma_calls |-> 0,
     result |-> FALSE, how |-> "none"]

\* is_perfect(n) is called
PerfectEnter(n, build) ==
    [PerfectIdle EXCEPT !.pc = "entry", !.n = n, !.build = build]

\* n <= 1
PerfectTrivial(n) == n <= 1

\* 2 * n
Twice(n) == 2 * n

\* if n <= 1 { return false; } and the call of sigma(n)
PerfectEntryStep(p) ==
    IF PerfectTrivial(p.n)
    THEN [p EXCEPT !.pc = "returned", !.how = "trivial", !.result = FALSE]
    ELSE [p EXCEPT !.pc = "in_sigma", !.sigma_calls = @ + 1]

\* sigma(n) == 2 * n, or sigma's panic passing through
PerfectResumeStep(p, g) ==
    IF g.pc = "panicked"
    THEN [p EXCEPT !.pc = "panicked", !.how = g.how]
    ELSE LET t == Unsigned(Twice(p.n), p.build)
         IN IF t.ok
            THEN [p EXCEPT !.pc = "returned", !.how = "sigma",
                           !.result = (g.result = t.val)]
            ELSE [p EXCEPT !.pc = "panicked",
                           !.how = "attempt to multiply with overflow"]

PerfectCall(n, build) ==
    /\ cur = "none"
    /\ cur' = "is_perfect"
    /\ perf' = PerfectEnter(n, build)
    /\ UNCHANGED <<raph, gam, zet, et, sig, er, ex, calls>>

PerfectEntry ==
    /\ perf.pc = "entry"
    /\ perf' = PerfectEntryStep(perf)
    /\ sig' = IF perf'.pc = "in_sigma" THEN SigmaEnter(perf.n, perf.build)
              ELSE sig
    /\ UNCHANGED <<cur, raph, gam, zet, et, er, ex, calls>>

PerfectResume ==
    /\ perf.pc = "in_sigma"
    /\ sig.pc \in {"returned", "panicked"}
    /\ perf' = PerfectResumeStep(perf, sig)
    /\ UNCHANGED <<cur, raph, gam, zet, et, sig, er, ex, calls>>

(***************************************************************************)
(* specials/erf.rs                                                         *)
(*                                                                         *)
(* The value is kept exact: 0.0, 1.0 or the Abramowitz-Stegun expression   *)
(* at one argument `at`, left uninterpreted, with the sign the negations   *)
(* have given it.                                                          *)
(***************************************************************************)
\* the arguments a caller passes: 0, both sides of the saturation point 5.0,
\* and values between, of either sign
ErfArgs ==
    LET pos == {1, Scale \div 2, Real(1), Real(2), Real(5) - 1, Real(5),
                Real(5) + 1, Real(6)}
    IN {0} \cup pos \cup {-x : x \in pos}

ErfIdle ==
    [pc |-> "idle", x0 |-> 0, x |-> 0, pending |-> 0, depth |-> 0, calls |-> 0,
     val |-> [sign |-> 1, mag |-> "zero", at |-> 0], how |-> "none"]

\* erf(x) is called
ErfEnter(x) == [ErfIdle EXCEPT !.pc = "entry", !.x0 = x, !.x = x]

\* a saturation test that takes 5.0 itself
ErfSaturatedFromFive(x) == FGe[x, Real(5)]

\* x > 5.0
ErfSaturated(x) == FGt[x, Real(5)]

\* the Abramowitz-Stegun formula for 0 < x <= 5, as a fixed function of x
AbramowitzStegun(x) == [sign |-> 1, mag |-> "as", at |-> x]

\* a negative branch that returns erf(-x) as it is
ErfNegLost(v) == v

\* the unary minus of -erf(-x)
ErfNeg(v) == [v EXCEPT !.sign = -@]

\* f64 equality of two values: 0.0 == -0.0
ErfEq(a, b) == (a.mag = "zero" /\ b.mag = "zero") \/ a = b

\* one invocation of erf: the tests x == 0.0, x < 0.0, x > 5.0 in the body's
\* order, then the formula
ErfEntryStep(e) ==
    LET c == [e EXCEPT !.calls = @ + 1]
    IN IF e.x = 0
       THEN [c EXCEPT !.pc = "unwind", !.how = "zero",
                      !.val = [sign |-> 1, mag |-> "zero", at |-> 0]]
       ELSE IF FLt[e.x, 0]
       THEN [c EXCEPT !.x = FNeg[e.x], !.pending = @ + 1, !.depth = @ + 1]
       ELSE IF ErfSaturated(e.x)
       THEN [c EXCEPT !.pc = "unwind", !.how = "one",
                      !.val = [sign |-> 1, mag |-> "one", at |-> 0]]
       ELSE [c EXCEPT !.pc = "unwind", !.how = "formula",
                      !.val = AbramowitzStegun(e.x)]

\* a pending invocation negates its callee's value; the outermost returns
ErfUnwindStep(e) ==
    IF e.pending = 0
    THEN [e EXCEPT !.pc = "returned"]
    ELSE [e EXCEPT !.pending = @ - 1, !.val = ErfNeg(e.val)]

ErfStep(e) == IF e.pc = "entry" THEN ErfEntryStep(e) ELSE ErfUnwindStep(e)

RECURSIVE ErfRun(_)
ErfRun(e) ==
    IF e.pc \in {"returned", "panicked"} THEN e ELSE ErfRun(ErfStep(e))

\* the outcome of erf(x)
ErfOf(x) == ErfRun(ErfEnter(x))

ErfCall(x) ==
    /\ cur = "none"
    /\ cur' = "erf"
    /\ er' = ErfEnter(x)
    /\ UNCHANGED <<raph, gam, zet, et, sig, ex, perf, calls>>

ErfEntry ==
    /\ er.pc = "entry"
    /\ er' = ErfEntryStep(er)
    /\ UNCHANGED <<cur, raph, gam, zet, et, sig, ex, perf, calls>>

ErfUnwind ==
    /\ er.pc = "unwind"
    /\ er' = ErfUnwindStep(er)
    /\ UNCHANGED <<cur, raph, gam, zet, et, sig, ex, perf, calls>>

(***************************************************************************)
(* functions/exp.rs                                                        *)
(***************************************************************************)
\* machine epsilon, the f64 spacing at 1.0: one grid step
Epsilon == 1

\* the arguments a caller passes: halves from -2 to 2
ExpArgs == {k * (Scale \div 2) : k \in (-4)..4}

ExpIdle ==
    [pc |-> "idle", x |-> 0, result |-> 0, term |-> 0, n |-> 0,
     terms |-> <<>>, how |-> "none"]

\* exp(x) is called: let mut result = 1.0; let mut term = 1.0; let mut n = 1;
ExpEnter(x) ==
    [ExpIdle EXCEPT !.pc = "loop", !.x = x, !.result = Real(1),
                    !.term = Real(1), !.n = 1]

\* while term > epsilon
ExpContinue(term) == FGt[term, Epsilon]

\* one test of the loop condition, with the body or the return of result
ExpLoopStep(e) ==
    IF ExpContinue(e.term)
    THEN LET term == FMul[e.term, FDiv[e.x, Real(e.n)]]
         IN [e EXCEPT !.term = term, !.result = FAdd[e.result, term],
                      !.n = @ + 1, !.terms = Append(@, term)]
    ELSE [e EXCEPT !.pc = "returned", !.how = "value"]

ExpCall(x) ==
    /\ cur = "none"
    /\ cur' = "exp"
    /\ ex' = ExpEnter(x)
    /\ UNCHANGED <<raph, gam, zet, et, sig, er, perf, calls>>

ExpLoop ==
    /\ ex.pc = "loop"
    /\ ex' = ExpLoopStep(ex)
    /\ UNCHANGED <<cur, raph, gam, zet, et, sig, er, perf, calls>>

Init ==
    /\ cur = "none"
    /\ raph = RaphsonIdle
    /\ gam = GammaIdle
    /\ zet = ZetaIdle
    /\ et = EtaIdle
    /\ sig = SigmaIdle
    /\ er = ErfIdle
    /\ ex = ExpIdle
    /\ perf = PerfectIdle
    /\ calls = <<>>

Next ==
    \/ \E x0 \in RaphsonX0, fn \in Fns, tol \in RaphsonTol, m \in 0..MaxIter :
          RaphsonCall(x0, fn, tol, m)
    \/ RaphsonLoop
    \/ RaphsonEvalF
    \/ RaphsonEvalDf
    \/ RaphsonGuard
    \/ RaphsonStep
    \/ RaphsonConv
    \/ \E x \in GammaArgs : GammaCall(x)
    \/ GammaEntry
    \/ GammaUnwind
    \/ \E a \in SArgs : ZetaCall(a)
    \/ ZetaEntry
    \/ ZetaTerm
    \/ \E a \in SArgs : EtaCall(a)
    \/ EtaEntry
    \/ EtaTerm
    \/ EtaResume
    \/ \E n \in 0..SigmaMaxN, b \in Builds : SigmaCall(n, b)
    \/ SigmaEntry
    \/ SigmaScan
    \/ \E n \in 0..SigmaMaxN, b \in Builds : PerfectCall(n, b)
    \/ PerfectEntry
    \/ PerfectResume
    \/ \E x \in ErfArgs : ErfCall(x)
    \/ ErfEntry
    \/ ErfUnwind
    \/ \E x \in ExpArgs : ExpCall(x)
    \/ ExpLoop

Spec == Init /\ [][Next]_vars

(***************************************************************************)
(* Claims about raphson                                                    *)
(***************************************************************************)
RaphsonDone == raph.pc \in {"returned", "panicked"}

\* the derivative of the current iteration has been evaluated and tested
PastGuard == raph.ndf = raph.i + 1 /\ raph.pc # "guard"

\* Newton step k moved by less than tol
StepConverged(k) ==
    FLt[FAbs[FSub[raph.steps[k].x_new, raph.steps[k].x]], raph.tol]

\* C1: the derivative guard is tested in every iteration: once an iteration
\* has evaluated a derivative with |df(x)| < tol the call has failed with
\* "Derivative too small" without computing that iteration's Newton step,
\* whatever f(x) is; no Newton step ever divided by such a derivative, and
\* the call fails for no other reason.
C1_GuardEveryIteration ==
    /\ (PastGuard /\ FLt[FAbs[raph.y_prime], raph.tol])
          => /\ raph.pc = "panicked"
             /\ raph.how = "Derivative too small"
             /\ Len(raph.steps) = raph.i
    /\ \A k \in 1..Len(raph.steps) :
          ~FLt[FAbs[raph.steps[k].y_prime], raph.tol]
    /\ raph.pc = "panicked"
          => PastGuard /\ FLt[FAbs[raph.y_prime], raph.tol]

\* the guard fails in an iteration after the first
C1_Witness == raph.pc = "panicked" /\ raph.i >= 1

\* C2: the call returns from the convergence branch exactly at the first
\* Newton step with |x_new - x| < tol, the value returned is that step's
\* x_new, and f and df have been evaluated once per step taken and never
\* again after the return.
C2_Inv ==
    /\ raph.how = "converged"
          => /\ raph.pc = "returned"
             /\ Len(raph.steps) = raph.i + 1
             /\ StepConverged(raph.i + 1)
             /\ raph.result = raph.steps[raph.i + 1].x_new
             /\ raph.nf = raph.i + 1 /\ raph.ndf = raph.i + 1
    /\ \A k \in 1..Len(raph.steps) :
          StepConverged(k)
            => /\ k = Len(raph.steps)
               /\ raph.pc \in {"conv", "returned"}
               /\ raph.pc = "returned" => raph.how = "converged"

C2_ReturnsAtFirstConvergedStep ==
    [](C2_Inv) /\ [][raph.pc = "returned" => raph' = raph]_vars

\* a converged return whose value differs from the iterate it started from
C2_Witness ==
    /\ raph.how = "converged"
    /\ raph.i >= 1
    /\ raph.result # raph.x

C4_PanicsWhenIterationsExhausted ==
    (RaphsonDone /\ raph.max_iter >= 1 /\ Len(raph.steps) = raph.max_iter
       /\ \A k \in 1..Len(raph.steps) : ~StepConverged(k))
      => raph.pc = "panicked"

\* a call that has entered a series loop runs on: the loop's next pass is
\* taken sooner or later
FairSpec == Spec /\ WF_vars(ZetaTerm) /\ WF_vars(EtaTerm)

(***************************************************************************)
(* Claims about gamma, zeta, eta and sigma                                 *)
(***************************************************************************)
\* C5: gamma(x) for x <= 0, zeta(s) for s <= 1 and sigma(n) for n = 0 fail
\* in the first step of the call: once the call has taken a step it has
\* panicked with its domain message, having made no recursive call, added
\* no series term, scanned no divisor and produced no value.
C5_DomainErrorFirst ==
    /\ (gam.calls >= 1 /\ gam.x0 <= 0)
          => /\ gam.pc = "panicked"
             /\ gam.how = "Gamma function undefined for non-positive values"
             /\ gam.calls = 1 /\ gam.recursions = 0
             /\ gam.stack = <<>> /\ gam.lanczos = <<>>
             /\ gam.val = GammaIdle.val
    /\ (zet.pc \notin {"idle", "entry"} /\ zet.s <= Real(1))
          => /\ zet.pc = "panicked"
             /\ zet.how = "Zeta function implementation requires s > 1"
             /\ zet.terms = <<>> /\ zet.n = 0 /\ zet.sum = 0
             /\ zet.result = ZetaIdle.result
    /\ (sig.pc \notin {"idle", "entry"} /\ sig.n = 0)
          => /\ sig.pc = "panicked"
             /\ sig.how = "Sum of divisors undefined for n = 0"
             /\ sig.scanned = 0 /\ sig.i = 0 /\ sig.sum = 0
             /\ sig.result = SigmaIdle.result

\* sigma(0) has panicked
C5_Witness == sig.pc = "panicked" /\ sig.n = 0

\* C6: eta panics exactly when s <= 0, and then with its own message and
\* without calling zeta; it calls zeta only with an s > 1, which zeta
\* accepts, so every call with s > 0 that ends has returned a value.
C6_EtaDomain ==
    /\ et.pc = "panicked"
          => /\ et.s <= 0
             /\ et.how = "Eta function implementation requires s > 0"
             /\ zet.pc = "idle"
    /\ (et.pc \notin {"idle", "entry"} /\ et.s <= 0) => et.pc = "panicked"
    /\ (et.pc \notin {"idle", "entry"} /\ zet.pc # "idle")
          => /\ et.s > Real(1)
             /\ zet.s = et.s
             /\ zet.pc # "panicked"

\* eta has returned the value it built from zeta's
C6_Witness == et.pc = "returned" /\ et.how = "zeta" /\ zet.pc = "returned"

\* C7: for every x > 0, gamma(x) is gamma(x + 1) / x: the same Lanczos value
\* times the same exact factor, whichever branch x takes.
C7_GammaRecurrence ==
    gam.pc = "returned"
      => LET up == GammaOf(FAdd[gam.x0, Real(1)])
         IN /\ up.pc = "returned"
            /\ up.val.at = gam.val.at
            /\ RatDiv(up.val.k, RatOf(gam.x0)) = gam.val.k

\* gamma has returned for an argument of (0, 1)
C7_Witness == gam.pc = "returned" /\ gam.x0 > 0 /\ gam.x0 < Real(1)

\* the sum of the first k terms, added in order starting from 0.0
RECURSIVE FSumTo(_, _)
FSumTo(terms, k) == IF k = 0 THEN 0 ELSE FAdd[FSumTo(terms, k - 1), terms[k]]

C9_Inv ==
    /\ Len(zet.terms) <= TermCap
    /\ zet.pc = "loop" => zet.n = Len(zet.terms) + 1 /\ zet.n <= TermCap
    /\ \A k \in 1..Len(zet.terms) : ~FLt[zet.terms[k], Tol15]
    /\ zet.pc \in {"loop", "returned"} => zet.sum = FSumTo(zet.terms, Len(zet.terms))
    /\ zet.how = "tolerance"
          => /\ FLt[zet.term, Tol15]
             /\ zet.result = FSumTo(zet.terms, Len(zet.terms))
    /\ zet.how = "cap"
          => /\ Len(zet.terms) = TermCap
             /\ zet.result = FSumTo(zet.terms, TermCap)
    /\ Len(et.terms) <= TermCap
    /\ et.pc = "loop" => et.n = Len(et.terms) + 1
    /\ \A k \in 1..Len(et.terms) : ~FLt[FAbs[et.terms[k]], Tol15]
    /\ et.how = "tolerance"
          => /\ FLt[FAbs[et.term], Tol15]
             /\ et.result = FSumTo(et.terms, Len(et.terms))
    /\ et.how = "cap"
          => /\ Len(et.terms) = TermCap
             /\ et.result = FSumTo(et.terms, TermCap)

\* C9: zeta's series and eta's alternating series add at most TermCap terms
\* (the model's 1,000,000), for n = 1, 2, ..., and then the call returns;
\* the first term below the tolerance ends the loop and is not part of the
\* sum returned.
C9_SeriesBounded ==
    /\ [](C9_Inv)
    /\ (zet.pc = "loop") ~> (zet.pc = "returned")
    /\ (et.pc = "loop") ~> (et.pc = "returned")

\* zeta has left its loop on a term below the tolerance after adding others
C9_Witness ==
    /\ zet.pc = "returned"
    /\ zet.how = "tolerance"
    /\ Len(zet.terms) >= 2

\* C10 (as the specification states it): for 1 < s1 < s2,
\* zeta(s1) > zeta(s2) > 1, closed-form points included.
C10_ZetaDecreasing ==
    (cur = "zeta" /\ zet.pc = "returned")
      => \A s2 \in SArgs :
            zet.s < s2
              => /\ FGt[zet.result, ZetaOf(s2).result]
                 /\ FGt[ZetaOf(s2).result, Real(1)]

(***************************************************************************)
(* Claims about erf                                                        *)
(***************************************************************************)
\* the f64 negation of a value of erf
Minus(v) == [sign |-> -v.sign, mag |-> v.mag, at |-> v.at]

\* C11: erf is odd: the value a call erf(x) returns equals the negation of
\* the value erf(-x) returns, for every argument x, x = 0 (both sides 0) and
\* |x| > 5 (the values 1 and -1) included.
C11_ErfOdd ==
    er.pc = "returned" =>
        /\ ErfEq(er.val, Minus(ErfOf(FNeg[er.x0]).val))
        /\ (er.x0 = 0 => er.val.mag = "zero")
        /\ (FGt[FAbs[er.x0], Real(5)] =>
               er.val = [sign |-> SgnI(er.x0), mag |-> "one", at |-> 0])

C11_Witness ==
    /\ er.pc = "returned"
    /\ er.x0 < 0
    /\ er.val.mag = "as"
    /\ er.val.sign = -1

\* C12: erf is total: a call never fails, it calls itself at most once (for
\* a negative argument), it returns exactly 0 for x = 0 and exactly 1.0 for
\* every x > 5.0, and x = 5.0 itself is evaluated by the approximation.
C12_ErfTotal ==
    /\ er.pc # "panicked"
    /\ er.depth <= 1
    /\ er.pc \in {"entry", "unwind", "returned"} => er.calls <= er.depth + 1
    /\ er.pc = "returned" =>
          /\ er.calls = IF er.x0 < 0 THEN 2 ELSE 1
          /\ (er.x0 = 0 => er.val.mag = "zero" /\ er.how = "zero")
          /\ (FGt[er.x0, Real(5)] =>
                er.val = [sign |-> 1, mag |-> "one", at |-> 0])
          /\ (er.x0 = Real(5) =>
                er.how = "formula" /\ er.val = AbramowitzStegun(Real(5)))

C12_Witness ==
    /\ er.pc = "returned"
    /\ er.x0 = Real(5)
    /\ er.how = "formula"

(***************************************************************************)
(* Claims about sigma and is_perfect                                       *)
(***************************************************************************)
Divisors(n) == {d \in 1..n : n % d = 0}

RECURSIVE SumOf(_)
SumOf(S) == IF S = {} THEN 0 ELSE LET d == CHOOSE d \in S : TRUE
                                  IN d + SumOf(S \ {d})

IsPrime(n) == n >= 2 /\ Divisors(n) = {1, n}

\* C13: for every n >= 1 sigma(n) is the sum of the positive divisors of n,
\* each counted once: while the scan is at i the sum holds exactly the
\* divisors d with d < i or n/d < i, the root of a perfect square once; so
\* sigma(1) = 1 and sigma(p) = p + 1 for a prime p.
C13_SigmaIsDivisorSum ==
    /\ sig.pc = "scan" =>
          sig.sum = SumOf({d \in Divisors(sig.n) :
                              d < sig.i \/ sig.n \div d < sig.i})
    /\ (sig.pc = "returned" /\ sig.n >= 1) =>
          /\ sig.result = SumOf(Divisors(sig.n))
          /\ (sig.n = 1 => sig.result = 1)
          /\ (IsPrime(sig.n) => sig.result = sig.n + 1)

C13_Witness ==
    /\ cur = "sigma"
    /\ sig.pc = "returned"
    /\ sig.n = 25
    /\ sig.result = 31

\* C14: is_perfect never fails; for n <= 1 it returns false and sigma is not
\* called (not for n = 0 either, where sigma would panic); for n >= 2 it
\* calls sigma once and returns true exactly when sigma(n) = 2n, that is
\* when n is the sum of its proper divisors.
C14_IsPerfect ==
    /\ perf.pc # "panicked"
    /\ (perf.pc = "returned" /\ perf.n <= 1) =>
          /\ perf.result = FALSE
          /\ perf.sigma_calls = 0
          /\ sig = SigmaIdle
    /\ (perf.pc = "returned" /\ perf.n >= 2) =>
          /\ perf.sigma_calls = 1
          /\ sig.pc = "returned" /\ sig.n = perf.n
          /\ perf.result = (sig.result = 2 * perf.n)
          /\ perf.result = (perf.n = SumOf(Divisors(perf.n) \ {perf.n}))

C14_Witness ==
    /\ perf.pc = "returned"
    /\ perf.n = 28
    /\ perf.result = TRUE

(***************************************************************************)
(* Claims about exp                                                        *)
(***************************************************************************)
\* C15: exp(x) starts from the constant term 1.0 and adds terms until the
\* magnitude of the latest term is at most epsilon: on return, for positive,
\* zero and negative x alike, result is 1.0 plus the terms added and the
\* last term added has magnitude <= epsilon.
C15_ExpStopsOnSmallTerm ==
    ex.pc = "returned" =>
        /\ ex.result = FAdd[Real(1), FSumTo(ex.terms, Len(ex.terms))]
        /\ FLe[FAbs[ex.term], Epsilon]

(***************************************************************************)
(* Claims about raphson: the calls of f and df, and tol <= 0               *)
(***************************************************************************)
\* the iterations a call has performed or is performing
Iterations(r) ==
    IF r.pc \in {"loop", "idle"} \/ r.how = "exhausted" THEN r.i ELSE r.i + 1

\* the iterations whose f(x) has been evaluated
IterationsBegun(r) == IF r.pc = "eval_f" THEN r.i ELSE Iterations(r)

\* C18: f and df are each called exactly once per iteration, f first and df
\* next at the same iterate x: after k iterations, the last one ending in
\* convergence or in the derivative failure included, each has been called
\* k times, and k <= max_iter.
C18_OneCallEachPerIteration ==
    /\ Len(raph.order) = raph.nf + raph.ndf
    /\ raph.nf <= raph.max_iter
    /\ raph.nf = IterationsBegun(raph)
    /\ raph.ndf = IF raph.pc = "eval_df" THEN raph.nf - 1 ELSE raph.nf
    /\ \A k \in 1..Len(raph.order) :
          raph.order[k][1] = (IF k % 2 = 1 THEN "f" ELSE "df")
    /\ \A j \in 1..raph.ndf :
          raph.order[2 * j - 1][2] = raph.order[2 * j][2]
    /\ \A j \in 1..Len(raph.steps) :
          raph.order[2 * j][2] = raph.steps[j].x
    /\ RaphsonDone =>
          /\ raph.nf = raph.ndf
          /\ raph.nf = Iterations(raph)
          /\ Iterations(raph) <= raph.max_iter

C18_Witness ==
    /\ raph.pc = "returned"
    /\ raph.how = "converged"
    /\ raph.nf = 2
    /\ raph.ndf = 2

\* C19: a call with tol <= 0 never returns from the convergence branch, not
\* even when a step leaves x unchanged: it ends by using up max_iter
\* iterations or in the derivative guard.
C19_NoConvergenceForNonPositiveTol ==
    (RaphsonDone /\ FLe[raph.tol, 0]) =>
        /\ raph.how # "converged"
        /\ \/ raph.how = "exhausted" /\ raph.i = raph.max_iter
           \/ raph.how = "Derivative too small"

C19_Witness ==
    /\ raph.pc = "returned"
    /\ raph.tol = 0
    /\ raph.how = "exhausted"
    /\ raph.max_iter >= 1
    /\ \E j \in 1..Len(raph.steps) : raph.steps[j].x_new = raph.steps[j].x

(***************************************************************************)
(* Claims about the recursion of gamma                                     *)
(***************************************************************************)
\* floor and ceiling of a fixed-point f64, as integers
Floor(v) == v \div Scale

Ceil(v) == -((-v) \div Scale)

\* C20 (as stated): for x >= 2 the number of nested recursive calls before
\* the Lanczos branch is ceil(x) - 1, for integer and non-integer x alike.
C20_DepthIsCeilMinusOne ==
    (gam.pc = "returned" /\ FGe[gam.x0, Real(2)]) =>
        gam.recursions = Ceil(gam.x0) - 1

\* C20 (amended): for x >= 2 the number of nested recursive calls before the
\* Lanczos branch is floor(x) - 1, never more while the call runs: that is
\* ceil(x) - 1 for an integer x and ceil(x) - 2 for a non-integer x.
C20_DepthIsFloorMinusOne ==
    (gam.pc # "idle" /\ FGe[gam.x0, Real(2)]) =>
        /\ gam.recursions <= Floor(gam.x0) - 1
        /\ gam.pc \in {"unwind", "returned"} =>
              /\ gam.recursions = Floor(gam.x0) - 1
              /\ gam.recursions = IF gam.x0 % Scale = 0
                                  THEN Ceil(gam.x0) - 1
                                  ELSE Ceil(gam.x0) - 2
              /\ gam.calls = gam.recursions + 1

C20_Witness ==
    /\ gam.pc = "returned"
    /\ FGe[gam.x0, Real(3)]
    /\ gam.x0 % Scale # 0
    /\ gam.recursions = Floor(gam.x0) - 1

(***************************************************************************)
(* Calls side by side and calls in sequence                                *)
(*                                                                         *)
(* A call site holds the request it has made and the outcome it has got;   *)
(* a frame holds the parameters and the local variables of the call a site *)
(* is running, and those of its nested call (eta's zeta, is_perfect's      *)
(* sigma).  calls.site and calls.frame are the two maps.                   *)
(***************************************************************************)
Sites == {1, 2}

\* one statement of raphson, by its position
RaphsonAdvance(r) ==
    CASE r.pc = "loop"    -> RaphsonLoopStep(r)
      [] r.pc = "eval_f"  -> RaphsonEvalFStep(r)
      [] r.pc = "eval_df" -> RaphsonEvalDfStep(r)
      [] r.pc = "guard"   -> RaphsonGuardStep(r)
      [] r.pc = "step"    -> RaphsonNewtonStep(r)
      [] r.pc = "conv"    -> RaphsonConvStep(r)

\* the calls the sites make: every function, with arguments for each of its
\* branches
Requests ==
    {[fn |-> "raphson", args |-> a] :
        a \in {<<Real(1), "sqrt2", 8, 3>>, <<Real(1), "sqrt2", 1, 2>>,
               <<Real(1), "no_root", 1, 3>>, <<0, "linear", 0, 2>>}} \cup
    {[fn |-> "gamma", args |-> <<x>>] : x \in {0, Scale \div 2, Real(3)}} \cup
    {[fn |-> "zeta", args |-> <<a>>] : a \in {Real(1), Real(2), Real(3)}} \cup
    {[fn |-> "eta", args |-> <<a>>] : a \in {0, Scale \div 2, Real(1), Real(3)}} \cup
    {[fn |-> "erf", args |-> <<x>>] : x \in {-Real(1), 0, Real(6)}} \cup
    {[fn |-> "sigma", args |-> a] :
        a \in {<<0, "debug">>, <<6, "debug">>, <<12, "release">>}} \cup
    {[fn |-> "is_perfect", args |-> a] :
        a \in {<<1, "debug">>, <<6, "debug">>, <<10, "release">>}} \cup
    {[fn |-> "exp", args |-> <<x>>] : x \in {-Real(1), Real(1)}}

\* the parameters and locals of a call at its entry, nothing else
FrameEnter(q) ==
    LET a == q.args
    IN CASE q.fn = "raphson" ->
              [fn |-> q.fn, st |-> RaphsonEnter(a[1], a[2], a[3], a[4]), sub |-> <<>>]
         [] q.fn = "gamma" -> [fn |-> q.fn, st |-> GammaEnter(a[1]), sub |-> <<>>]
         [] q.fn = "zeta" -> [fn |-> q.fn, st |-> ZetaEnter(a[1]), sub |-> <<>>]
         [] q.fn = "eta" -> [fn |-> q.fn, st |-> EtaEnter(a[1]), sub |-> ZetaIdle]
         [] q.fn = "erf" -> [fn |-> q.fn, st |-> ErfEnter(a[1]), sub |-> <<>>]
         [] q.fn = "sigma" ->
              [fn |-> q.fn, st |-> SigmaEnter(a[1], a[2]), sub |-> <<>>]
         [] q.fn = "is_perfect" ->
              [fn |-> q.fn, st |-> PerfectEnter(a[1], a[2]), sub |-> SigmaIdle]
         [] q.fn = "exp" -> [fn |-> q.fn, st |-> ExpEnter(a[1]), sub |-> <<>>]

FrameIdle == [fn |-> "none", st |-> [pc |-> "idle"], sub |-> <<>>]

FrameDone(f) == f.st.pc \in {"returned", "panicked", "overflow"}

\* one step of the call a frame holds
FrameStep(f) ==
    CASE f.fn = "raphson" -> [f EXCEPT !.st = RaphsonAdvance(f.st)]
      [] f.fn = "gamma" -> [f EXCEPT !.st = GammaStep(f.st)]
      [] f.fn = "zeta" -> [f EXCEPT !.st = ZetaStep(f.st)]
      [] f.fn = "erf" -> [f EXCEPT !.st = ErfStep(f.st)]
      [] f.fn = "sigma" -> [f EXCEPT !.st = SigmaStep(f.st)]
      [] f.fn = "exp" -> [f EXCEPT !.st = ExpLoopStep(f.st)]
      [] f.fn = "eta" ->
           IF f.st.pc = "entry"
           THEN LET e == EtaEntryStep(f.st)
                IN [f EXCEPT !.st = e,
                             !.sub = IF e.pc = "in_zeta" THEN ZetaEnter(f.st.s)
                                     ELSE @]
           ELSE IF f.st.pc = "loop" THEN [f EXCEPT !.st = EtaTermStep(f.st)]
           ELSE IF f.sub.pc \in {"returned", "panicked"}
           THEN [f EXCEPT !.st = EtaResumeStep(f.st, f.sub)]
           ELSE [f EXCEPT !.sub = ZetaStep(f.sub)]
      [] f.fn = "is_perfect" ->
           IF f.st.pc = "entry"
           THEN LET p == PerfectEntryStep(f.st)
                IN [f EXCEPT !.st = p,
                             !.sub = IF p.pc = "in_sigma"
                                     THEN SigmaEnter(f.st.n, f.st.build)
                                     ELSE @]
           ELSE IF f.sub.pc \in {"returned", "panicked"}
           THEN [f EXCEPT !.st = PerfectResumeStep(f.st, f.sub)]
           ELSE [f EXCEPT !.sub = SigmaStep(f.sub)]

\* what the caller gets: the value returned, or the panic
FrameOutcome(f) ==
    IF f.st.pc \in {"panicked", "overflow"}
    THEN [kind |-> "panic", what |-> f.st.how]
    ELSE [kind |-> "value",
          what |-> IF f.fn \in {"gamma", "erf"} THEN f.st.val ELSE f.st.result]

\* the most calls one site makes, one after the other
MaxCalls == 2

NoRequest == [fn |-> "none", args |-> <<>>]

NoOutcome == [kind |-> "none", what |-> 0]

\* a call site: the request in hand, the steps its call has taken, whether
\* another call ran between them, the outcome, and the earlier calls
SiteIdle ==
    [pc |-> "idle", req |-> NoRequest, k |-> 0, mixed |-> FALSE,
     out |-> NoOutcome, n |-> 0, first |-> <<>>]

\* one store for the locals of every call
FrameOfShared(c) == 1

\* the store of the locals of site c's call: the call's own
FrameOf(c) == c

\* locals whose loop counter stays from the previous call of the function
CallFrameKeepsCounter(old, q) ==
    IF old.fn = "exp" /\ q.fn = "exp"
    THEN [FrameEnter(q) EXCEPT !.st.n = old.st.n]
    ELSE FrameEnter(q)

\* the locals at a call's entry, whatever the store held before: every
\* `let` of the body initialises its variable
CallFrame(old, q) == FrameEnter(q)

\* site c calls the function of request q
SiteCall(c, q) ==
    /\ calls.site[c].pc = "idle"
    /\ calls' =
          [site |-> [calls.site EXCEPT
                        ![c] = [@ EXCEPT !.pc = "running", !.req = q, !.k = 0,
                                         !.mixed = FALSE, !.out = NoOutcome,
                                         !.n = @ + 1]],
           frame |-> [calls.frame EXCEPT ![FrameOf(c)] = CallFrame(@, q)]]
    /\ UNCHANGED <<cur, raph, gam, zet, et, sig, er, ex, perf>>

\* the call of site c takes one step
SiteStep(c) ==
    /\ calls.site[c].pc = "running"
    /\ ~FrameDone(calls.frame[FrameOf(c)])
    /\ calls' =
          [site |-> [calls.site EXCEPT
                        ![c] = [@ EXCEPT
                                  !.k = @ + 1,
                                  !.mixed = @ \/ \E o \in Sites \ {c} :
                                               /\ calls.site[o].pc = "running"
                                               /\ calls.site[o].k >= 1]],
           frame |-> [calls.frame EXCEPT ![FrameOf(c)] = FrameStep(@)]]
    /\ UNCHANGED <<cur, raph, gam, zet, et, sig, er, ex, perf>>

\* the call of site c returns or panics: the site has its outcome
SiteReturn(c) ==
    /\ calls.site[c].pc = "running"
    /\ FrameDone(calls.frame[FrameOf(c)])
    /\ calls' =
          [calls EXCEPT
              !.site[c] = [@ EXCEPT
                             !.pc = "done",
                             !.out = FrameOutcome(calls.frame[FrameOf(c)])]]
    /\ UNCHANGED <<cur, raph, gam, zet, et, sig, er, ex, perf>>

\* site c goes on to its next call; the outcome of the last one is kept
SiteAgain(c) ==
    /\ calls.site[c].pc = "done"
    /\ calls.site[c].n < MaxCalls
    /\ calls' =
          [calls EXCEPT
              !.site[c] = [@ EXCEPT
                             !.pc = "idle",
                             !.first = Append(@, [req |-> calls.site[c].req,
                                                  out |-> calls.site[c].out])]]
    /\ UNCHANGED <<cur, raph, gam, zet, et, sig, er, ex, perf>>

CallsInit ==
    /\ cur = "none"
    /\ raph = RaphsonIdle
    /\ gam = GammaIdle
    /\ zet = ZetaIdle
    /\ et = EtaIdle
    /\ sig = SigmaIdle
    /\ er = ErfIdle
    /\ ex = ExpIdle
    /\ perf = PerfectIdle
    /\ calls = [site |-> [c \in Sites |-> SiteIdle],
                frame |-> [c \in Sites |-> FrameIdle]]

\* the calls two sites make at the same time
ConcRequests ==
    {q \in Requests :
        \/ q.fn \in {"raphson", "zeta", "exp"}
        \/ q.fn = "sigma" /\ q.args[1] >= 6
        \/ q.fn = "eta" /\ q.args[1] = Real(3)}

\* two sites, one call each, their steps interleaved in any order
ConcNext ==
    \E c \in Sites :
        \/ \E q \in ConcRequests : SiteCall(c, q)
        \/ SiteStep(c)
        \/ SiteReturn(c)

ConcSpec == CallsInit /\ [][ConcNext]_vars

\* one site, its calls one after the other
SeqNext ==
    \/ \E q \in Requests : SiteCall(1, q)
    \/ SiteStep(1)
    \/ SiteReturn(1)
    \/ SiteAgain(1)

SeqSpec == CallsInit /\ [][SeqNext]_vars

(***************************************************************************)
(* Claims about repeated and concurrent calls                              *)
(***************************************************************************)
SameRequest(p, q) == p.fn = q.fn /\ p.args = q.args

SameOutcome(a, b) == a.kind = b.kind /\ a.what = b.what

\* the frame of request q after k steps with no other call around
RECURSIVE FrameAfter(_, _)
FrameAfter(q, k) ==
    IF k = 0 THEN FrameEnter(q) ELSE FrameStep(FrameAfter(q, k - 1))

RECURSIVE FrameRun(_)
FrameRun(f) == IF FrameDone(f) THEN f ELSE FrameRun(FrameStep(f))

\* the outcome of request q run alone
Alone(q) == FrameOutcome(FrameRun(FrameEnter(q)))

C21_GammaDomainReduction ==
    (gam.pc # "idle" /\ FGt[gam.x0, 0] /\ ~IsInf(gam.x0)) =>
        /\ gam.pc # "overflow"
        /\ gam.pc # "panicked"
        /\ FGt[gam.x, 0]
        /\ Len(gam.lanczos) <= 1
        /\ \A j \in 1..Len(gam.lanczos) :
              FGe[gam.lanczos[j], Real(1)] /\ FLt[gam.lanczos[j], Real(2)]
        /\ gam.pc \in {"unwind", "returned"} => Len(gam.lanczos) = 1

(***************************************************************************)
(* Claims about the branches of eta                                        *)
(***************************************************************************)
\* s is within 1e-15 of 1
NearOne(s) == FLt[FAbs[FSub[s, Real(1)]], Tol15]

\* C22: eta takes one branch per argument s > 0.  Within 1e-15 of 1 it
\* returns ln(2) and neither zeta nor the series is touched.  For any other
\* s > 1 it returns (1 - 2^(1-s)) times the value zeta returns for that s,
\* and the series is not touched; eta(2) is one half times zeta's closed
\* form pi^2/6 (the product rounded to the grid).  For any other s of (0, 1)
\* it sums the alternating series and zeta is never called.
C22_EtaBranches ==
    /\ et.pc = "loop" => FLt[et.s, Real(1)] /\ ~NearOne(et.s) /\ zet = ZetaIdle
    /\ et.pc = "in_zeta" =>
          FGt[et.s, Real(1)] /\ ~NearOne(et.s) /\ zet.s = et.s /\ et.terms = <<>>
    /\ (et.pc \in {"returned", "panicked"} /\ FGt[et.s, 0]) =>
          /\ et.pc = "returned"
          /\ NearOne(et.s) =>
                /\ et.how = "ln2"
                /\ et.result = LN2
                /\ zet = ZetaIdle
                /\ et.terms = <<>>
          /\ (~NearOne(et.s) /\ FGt[et.s, Real(1)]) =>
                /\ et.how = "zeta"
                /\ zet = ZetaOf(et.s)
                /\ zet.pc = "returned"
                /\ et.factor = FSub[Real(1), FPow[Real(2), FSub[Real(1), et.s]]]
                /\ et.result = FMul[et.factor, zet.result]
                /\ et.terms = <<>>
          /\ et.s = Real(2) =>
                /\ zet.how = "closed_form_2"
                /\ 2 * et.factor = Real(1)
                /\ et.result = FMul[Real(1) \div 2, FDiv[FMul[PI, PI], Real(6)]]
          /\ (~NearOne(et.s) /\ FLt[et.s, Real(1)]) =>
                /\ et.how \in {"tolerance", "cap"}
                /\ et.result = FSumTo(et.terms, Len(et.terms))
                /\ zet = ZetaIdle

C22_Witness ==
    /\ et.pc = "returned"
    /\ et.s = Real(2)
    /\ et.how = "zeta"
    /\ zet.how = "closed_form_2"

(***************************************************************************)
(* Claims about the unsigned arithmetic of sigma and is_perfect            *)
(***************************************************************************)
\* C23: no unsigned overflow: for every n >= 1 of the unsigned range the
\* running sum of sigma stays within the range at every step of the scan,
\* and so does the product 2 * n of is_perfect; no addition or product
\* panics or wraps, and the values compared are the true ones.
C23_NoUnsignedOverflow ==
    /\ sig.how # "attempt to add with overflow"
    /\ (sig.pc = "scan" /\ sig.i <= sig.sqrt_n /\ sig.n % sig.i = 0) =>
          sig.sum + sig.i + PairedDivisor(sig.n, sig.i) <= UMax
    /\ perf.how \notin {"attempt to add with overflow",
                        "attempt to multiply with overflow"}
    /\ (perf.pc = "in_sigma" /\ sig.pc = "returned") => Twice(perf.n) <= UMax
    /\ (perf.pc = "returned" /\ perf.how = "sigma") =>
          perf.result = (SumOf(Divisors(perf.n)) = 2 * perf.n)

====
